---- MODULE Spec2Model ----
(***************************************************************************)
(* A model of karrick/golw, a size-based log-rotation writer.              *)
(*                                                                         *)
(* The repository holds two implementations of LogWriter:                  *)
(*   - the index-based writer of logWriter.go, which keeps one pending     *)
(*     buffer and the index of the final newline in it (variable lw);      *)
(*   - the extent-based writer of file.go, which keeps one pending buffer  *)
(*     and the length of every Write call's data in it (variable xw).      *)
(* Each is checked under its own specification (SpecIdx, SpecExt) over the *)
(* same model of the directory the log files live in (variable disk).      *)
(*                                                                         *)
(* A byte is modelled by what the writers look at, whether it is '\n',     *)
(* together with the number of the Write call that supplied it, so that    *)
(* the files can be compared with what the callers wrote.                  *)
(***************************************************************************)
EXTENDS Integers, Sequences, FiniteSets, TLC

VARIABLES
    phase,  \* "new", "open", "closed", "failed" (construction refused), "panicked"
    lw,     \* the LogWriter struct of logWriter.go
    xw,     \* the LogWriter struct of file.go
    disk,   \* the log directory and the clock
    obs,    \* what the callers fed in and got back (history)
    run     \* the Write calls in progress, one frame per goroutine

vars == <<phase, lw, xw, disk, obs, run>>

----------------------------------------------------------------------------
(* Bounds of the model.                                                    *)

MaxWrites == 2      \* Write calls per run
MaxLen == 2         \* bytes per Write call
MaxBytesMax == 3    \* largest configured MaxBytes
MaxBuffer == 3      \* largest configured BufferBytes / BufferSizeMax
CoarseTicks == 2    \* clock readings a coarse time format maps to one string
MaxShort == 2       \* bytes a failing file write may stop short of the request
MaxFaults == 1      \* operations per run in which a file primitive fails

----------------------------------------------------------------------------
(* Constants of the program.                                               *)

defaultMaxBytes == 104857600    \* 100 * (1 << 20)
defaultBufferSizeMax == 128

----------------------------------------------------------------------------
(* Bytes.                                                                  *)

Byte(origin, nl) == 2 * origin + (IF nl THEN 1 ELSE 0)
IsNewline(b) == b % 2 = 1
Origin(b) == b \div 2

\* Write calls per run where the loop of flushCompletedExtents is followed
\* turn by turn: one more, so that a flush meets an extent that waits for its
\* newline behind a complete one.
TurnWrites == MaxWrites + 1

\* Origin 0 marks the bytes found on disk at construction.
CloseOrigin == TurnWrites + 1    \* origin of the newline Close appends
StaleOrigin == TurnWrites + 2    \* origin of bytes read past the end of a slice

\* The bytes s[:n] reads past len(s), within the capacity: memory that make
\* or append zeroed and no append has written yet.
Stale(n) == [i \in 1..n |-> Byte(StaleOrigin, FALSE)]

\* The capacity append(s, ...) leaves when len(s) grows from len to len + n
\* (runtime.growslice for a byte slice: double, or the length needed when
\* that is more, rounded up to an allocation size class).
SizeClass(c) ==
    IF c <= 32 THEN 8 * ((c + 7) \div 8)
    ELSE IF c <= 128 THEN 16 * ((c + 15) \div 16)
    ELSE 32 * ((c + 31) \div 32)

AppendCap(cap, len, n) ==
    IF len + n <= cap THEN cap
    ELSE SizeClass(IF len + n > 2 * cap THEN len + n ELSE 2 * cap)

IsPanic(err) ==
    err \in {"panic: index out of range", "panic: slice bounds out of range"}

RECURSIVE SeqsUpTo(_, _)
SeqsUpTo(S, n) ==
    IF n = 0 THEN {<<>>}
    ELSE LET shorter == SeqsUpTo(S, n - 1)
         IN shorter \cup {Append(s, b) : s \in {t \in shorter : Len(t) = n - 1}, b \in S}

\* The byte slices the k-th Write call may pass.
Chunks(k) == SeqsUpTo({Byte(k, FALSE), Byte(k, TRUE)}, MaxLen)

\* bytes.LastIndexByte(s, '\n'): 0-based index of the last newline, or -1.
LastIndexByte(s) ==
    LET hits == {i \in 1..Len(s) : IsNewline(s[i])}
    IN IF hits = {} THEN -1
       ELSE (CHOOSE i \in hits : \A j \in hits : j <= i) - 1


\* Go's s[:n] and s[n:]
Take(s, n) == SubSeq(s, 1, n)
Drop(s, n) == SubSeq(s, n + 1, Len(s))

----------------------------------------------------------------------------
(* The directory: the file at the active path, the timestamped files in    *)
(* the order they were renamed, and the clock time.Now() reads.            *)

NoFile == [exists |-> FALSE, data |-> <<>>]
File(data) == [exists |-> TRUE, data |-> data]

\* The configured TimeFormatter: the default renders nanoseconds; a coarse
\* TimeFormat renders several clock readings as the same string.
FormatTime(fmt, now) == IF fmt = "nano" THEN now ELSE now \div CoarseTicks

\* os.Rename of the active path onto the timestamped path: an existing file
\* of that name is replaced.
renameActive(d, stamp) ==
    [d EXCEPT !.active = NoFile,
              !.rotated = Append(SelectSeq(d.rotated, LAMBDA f : f.stamp # stamp),
                                 [stamp |-> stamp, data |-> d.active.data])]

\* The environment of one operation: what the file primitives answer.
\*   wr: 0 when Write accepts everything, k > 0 when it stops k bytes short,
\*       -1 / -2 when it reports a negative / too large count;
\*   cl, rn, op, st: whether Close, Rename, OpenFile, Stat succeed.
NoFault == [wr |-> 0, cl |-> TRUE, rn |-> TRUE, op |-> TRUE, st |-> TRUE]

\* (*os.File).Write(data) under environment e: the count and error it
\* reports and the bytes that reached the file.
fileWriteCount(fp, data, e) ==
    IF fp = "nil" THEN 0
    ELSE IF e.wr = 0 THEN Len(data)
    ELSE IF e.wr > 0 THEN (IF e.wr > Len(data) THEN 0 ELSE Len(data) - e.wr)
    ELSE IF e.wr = -1 THEN -1
    ELSE Len(data) + 1

fileWriteErr(fp, data, e) ==
    IF fp = "nil" THEN "invalid argument"
    ELSE IF e.wr > 0 THEN "write error"
    ELSE "nil"

fileWriteLanded(fp, data, e) ==
    IF fp = "nil" THEN <<>>
    ELSE IF e.wr = 0 THEN data
    ELSE IF e.wr > 0 THEN Take(data, fileWriteCount(fp, data, e))
    ELSE <<>>

----------------------------------------------------------------------------
(* The index-based writer (logWriter.go). A machine m is the record        *)
(* [w |-> the struct, d |-> the directory, o |-> the history].             *)

\* The history of one call of (*os.File).Write: the bytes handed over, the
\* buffer they were taken from and the count and error reported.
Handed(o, data, via, buf, idx, nw, rerr) ==
    [o EXCEPT !.handed = Append(@, [data |-> data, via |-> via, buf |-> buf, idx |-> idx,
                                    nw |-> nw, err |-> rerr])]

\* The history of one step of a rotation.
Stepped(o, step, err) ==
    [o EXCEPT !.steps = Append(@, [step |-> step, err |-> err]), !.err = err]

createLogFile(m, e) ==
    IF e.op
    THEN [m EXCEPT !.w.filePointer = "open",
                   !.d.active = File(<<>>),
                   !.o = [Stepped(@, "create", "nil") EXCEPT !.created = @ + 1]]
    ELSE [m EXCEPT !.w.filePointer = "nil",
                   !.o = Stepped(@, "create", "open error")]

\* Faulty variant of closeLogFile: the count of written bytes survives the close.
closeLogFileKeepsCount(m, e) ==
    [m EXCEPT !.w.filePointer = "nil",
              !.o.err = IF m.w.filePointer = "nil" THEN "invalid argument"
                        ELSE IF e.cl THEN "nil" ELSE "close error"]

\* Faulty variant of closeLogFile: the writer keeps the pointer to the file
\* it closed.
closeLogFileKeepsPointer(m, e) ==
    [m EXCEPT !.w.writtenBytes = 0,
              !.o = Stepped(@, "close",
                            IF m.w.filePointer = "nil" THEN "invalid argument"
                            ELSE IF e.cl THEN "nil" ELSE "close error")]

closeLogFile(m, e) ==
    [m EXCEPT !.w.filePointer = "nil",
              !.w.writtenBytes = 0,
              !.o = Stepped(@, "close",
                            IF m.w.filePointer = "nil" THEN "invalid argument"
                            ELSE IF e.cl THEN "nil" ELSE "close error")]

renameLogFile(m, e) ==
    LET timeStamp == FormatTime(m.w.timeFormatter, m.d.now)
        d1 == [m.d EXCEPT !.now = @ + 1]
    IN IF e.rn /\ m.d.active.exists
       THEN [m EXCEPT !.d = renameActive(d1, timeStamp),
                      !.o = Stepped(@, "rename", "nil")]
       ELSE [m EXCEPT !.d = d1,
                      !.o = Stepped(@, "rename", "rename error")]

\* rotate, from the result of each step on: an error ends the sequence.
rotateCreate(renamed, e) ==
    IF renamed.o.err # "nil" THEN renamed ELSE createLogFile(renamed, e)

rotateRename(closed, e) ==
    IF closed.o.err # "nil" THEN closed ELSE rotateCreate(renameLogFile(closed, e), e)

\* The history of a rotation: the directory before and after it.
Rotated(m, end) ==
    [end EXCEPT !.o.rot = Append(@, [ok |-> end.o.err = "nil",
                                       before |-> m.d,
                                       after |-> end.d,
                                       size |-> end.w.writtenBytes])]

rotate(m, e) == Rotated(m, rotateRename(closeLogFile(m, e), e))

\* The test of flush that sends the file away before writing count bytes.
flushNeedsRotate(w, count) ==
    LET potentialSize == w.writtenBytes + count
    IN potentialSize > w.maxBytes \/ count > w.maxBytes

\* Faulty variant of flushSettle: on an error the buffer is emptied, the
\* bytes of earlier calls with it.
flushSettleForgetsPending(m, rnw, rerr, olen, dlen, index) ==
    LET invalid == rnw < 0 \/ rnw > index
        err == IF invalid /\ rerr = "nil" THEN "invalid write result" ELSE rerr
        nw == IF invalid THEN 0 ELSE rnw
        buf1 == IF nw > 0 THEN Drop(m.w.buf, nw) ELSE m.w.buf
        nb == nw - olen
    IN IF err = "nil"
       THEN [m EXCEPT !.w.writtenBytes = @ + nw,
                      !.w.buf = buf1,
                      !.w.indexOfFinalNewline = @ - nw,
                      !.o.n = dlen,
                      !.o.err = "nil"]
       ELSE [m EXCEPT !.w.writtenBytes = @ + nw,
                      !.w.buf = <<>>,
                      !.w.indexOfFinalNewline = -1,
                      !.o.n = IF nb < 0 THEN 0 ELSE nb,
                      !.o.err = err]

\* Faulty variant of flushSettle: on an error every byte the file took is
\* reported as a byte of p.
flushSettleCountsPending(m, rnw, rerr, olen, dlen, index) ==
    LET invalid == rnw < 0 \/ rnw > index
        err == IF invalid /\ rerr = "nil" THEN "invalid write result" ELSE rerr
        nw == IF invalid THEN 0 ELSE rnw
        buf1 == IF nw > 0 THEN Drop(m.w.buf, nw) ELSE m.w.buf
        nb == nw - olen
        buf2 == IF nb < 0 THEN Take(buf1, -nb) ELSE <<>>
    IN IF err = "nil"
       THEN [m EXCEPT !.w.writtenBytes = @ + nw,
                      !.w.buf = buf1,
                      !.w.indexOfFinalNewline = @ - nw,
                      !.o.n = dlen,
                      !.o.err = "nil"]
       ELSE [m EXCEPT !.w.writtenBytes = @ + nw,
                      !.w.buf = buf2,
                      !.w.indexOfFinalNewline = LastIndexByte(buf2),
                      !.o.n = nw,
                      !.o.err = err]

\* flush after the file primitive reported (rnw, rerr) for buf[:index].
flushSettle(m, rnw, rerr, olen, dlen, index) ==
    LET invalid == rnw < 0 \/ rnw > index
        err == IF invalid /\ rerr = "nil" THEN "invalid write result" ELSE rerr
        nw == IF invalid THEN 0 ELSE rnw
        buf1 == IF nw > 0 THEN Drop(m.w.buf, nw) ELSE m.w.buf
        nb == nw - olen
        buf2 == IF nb < 0 THEN Take(buf1, -nb) ELSE <<>>
    IN IF err = "nil"
       THEN [m EXCEPT !.w.writtenBytes = @ + nw,
                      !.w.buf = buf1,
                      !.w.indexOfFinalNewline = @ - nw,
                      !.o.n = dlen,
                      !.o.err = "nil"]
       ELSE [m EXCEPT !.w.writtenBytes = @ + nw,
                      !.w.buf = buf2,
                      !.w.indexOfFinalNewline = LastIndexByte(buf2),
                      !.o.n = IF nb < 0 THEN 0 ELSE nb,
                      !.o.err = err]

\* Faulty variant of flushWrite: the bytes written stay in the buffer.
flushWriteKeepsWritten(m, olen, dlen, index, e) ==
    LET data == Take(m.w.buf, index)
        fp == m.w.filePointer
    IN [flushSettle([m EXCEPT !.d.active.data = @ \o fileWriteLanded(fp, data, e),
                              !.o = Handed(@, data, "flush", m.w.buf,
                                           m.w.indexOfFinalNewline,
                                           fileWriteCount(fp, data, e),
                                           fileWriteErr(fp, data, e))],
                    fileWriteCount(fp, data, e), fileWriteErr(fp, data, e),
                    olen, dlen, index) EXCEPT !.w.buf = m.w.buf]

\* flush from the write of buf[:index] on.
flushWrite(m, olen, dlen, index, e) ==
    LET data == Take(m.w.buf, index)
        fp == m.w.filePointer
    IN flushSettle([m EXCEPT !.d.active.data = @ \o fileWriteLanded(fp, data, e),
                             !.o = Handed(@, data, "flush", m.w.buf,
                                          m.w.indexOfFinalNewline,
                                          fileWriteCount(fp, data, e),
                                          fileWriteErr(fp, data, e))],
                   fileWriteCount(fp, data, e), fileWriteErr(fp, data, e),
                   olen, dlen, index)

flushRotated(rotated, olen, dlen, index, e) ==
    IF rotated.o.err # "nil"
    THEN [rotated EXCEPT !.o.n = 0]
    ELSE flushWrite(rotated, olen, dlen, index, e)

flush(m, olen, dlen, index, e) ==
    IF flushNeedsRotate(m.w, index)
    THEN flushRotated(rotate(m, e), olen, dlen, index, e)
    ELSE flushWrite(m, olen, dlen, index, e)

\* Faulty variant of writeNeedsRotate: a file that p would fill exactly is
\* sent away too.
writeNeedsRotateWhenFull(w, p) ==
    LET total == w.writtenBytes + Len(p)
    IN total >= w.maxBytes

\* The test of an unbuffered Write that sends the file away before writing p.
writeNeedsRotate(w, p) ==
    LET total == w.writtenBytes + Len(p)
    IN total > w.maxBytes

\* Faulty variant of noFlushYet: a buffer one byte over the threshold is not
\* flushed yet.
noFlushYetOneOver(w) == Len(w.buf) <= w.flushThreshold + 1 \/ w.indexOfFinalNewline < 0

\* The test of a buffered Write that returns without flushing.
noFlushYet(w) == Len(w.buf) <= w.flushThreshold \/ w.indexOfFinalNewline < 0

\* Faulty variant of flushIndex: the whole buffer is flushed, past the final newline.
flushWholeBuffer(w) == Len(w.buf)

\* How many bytes a buffered Write asks flush to write.
flushIndex(w) == w.indexOfFinalNewline + 1

\* An unbuffered Write from the write of p on.
writeDirect(m, p, e) ==
    LET fp == m.w.filePointer
        n == fileWriteCount(fp, p, e)
    IN [m EXCEPT !.d.active.data = @ \o fileWriteLanded(fp, p, e),
                 !.o = [Handed(@, p, "direct", <<>>, -1, n, fileWriteErr(fp, p, e))
                          EXCEPT !.n = n, !.err = fileWriteErr(fp, p, e)],
                 !.w.writtenBytes = @ + n]

writeRotated(rotated, p, e) ==
    IF rotated.o.err # "nil"
    THEN [rotated EXCEPT !.o.n = 0]
    ELSE writeDirect(rotated, p, e)

\* Faulty variant of writeAppend: the newline index is not moved past the
\* bytes that were pending.
writeAppendIndexInChunk(m, p) ==
    LET index == LastIndexByte(p)
    IN [m EXCEPT !.w.buf = @ \o p,
                 !.w.indexOfFinalNewline = IF index >= 0 THEN index ELSE @]

\* Faulty variant of writeAppend: p takes the place of the pending bytes.
writeAppendReplaces(m, p) ==
    [m EXCEPT !.w.buf = p,
              !.w.indexOfFinalNewline = LastIndexByte(p)]

\* A buffered Write: p joins the buffer and the newline index follows it.
writeAppend(m, p) ==
    LET origBufLen == Len(m.w.buf)
        index == LastIndexByte(p)
    IN [m EXCEPT !.w.buf = @ \o p,
                 !.w.indexOfFinalNewline = IF index >= 0 THEN origBufLen + index ELSE @]

\* Faulty variant of writeBuffered: the bytes taken into the buffer are
\* counted as written.
writeBufferedCountsPending(appended, origBufLen, p, e) ==
    IF noFlushYet(appended.w)
    THEN [appended EXCEPT !.o.n = Len(p), !.o.err = "nil", !.w.writtenBytes = @ + Len(p)]
    ELSE flush(appended, origBufLen, Len(p), flushIndex(appended.w), e)

writeBuffered(appended, origBufLen, p, e) ==
    IF noFlushYet(appended.w)
    THEN [appended EXCEPT !.o.n = Len(p), !.o.err = "nil"]
    ELSE flush(appended, origBufLen, Len(p), flushIndex(appended.w), e)

Write(m, p, e) ==
    IF m.w.flushThreshold = 0
    THEN IF writeNeedsRotate(m.w, p)
         THEN writeRotated(rotate(m, e), p, e)
         ELSE writeDirect(m, p, e)
    ELSE writeBuffered(writeAppend(m, p), Len(m.w.buf), p, e)

\* Faulty variant of closeFlush: the pending bytes are dropped, not written.
closeFlushDrops(m, e) ==
    [m EXCEPT !.w.buf = <<>>, !.w.indexOfFinalNewline = -1]

\* Close: the pending bytes go to the file in one write, whatever their size.
closeFlush(m, e) ==
    IF Len(m.w.buf) > 0
    THEN [m EXCEPT !.d.active.data = @ \o fileWriteLanded(m.w.filePointer, m.w.buf, e),
                   !.o = Handed(@, m.w.buf, "close", m.w.buf, m.w.indexOfFinalNewline,
                                fileWriteCount(m.w.filePointer, m.w.buf, e),
                                fileWriteErr(m.w.filePointer, m.w.buf, e)),
                   !.w.buf = <<>>,
                   !.w.indexOfFinalNewline = -1]
    ELSE [m EXCEPT !.w.indexOfFinalNewline = -1]

\* The error from Write is more significant than the error from Close.
closeResult(closed, writeErr) ==
    IF writeErr # "nil" THEN [closed EXCEPT !.o.err = writeErr] ELSE closed

Close(m, e) ==
    closeResult(closeLogFile(closeFlush(m, e), e),
                IF Len(m.w.buf) > 0 THEN fileWriteErr(m.w.filePointer, m.w.buf, e)
                ELSE "nil")

\* NewLogWriter from the creation of the log file on.
newPopulate(created, cfg) ==
    IF created.o.err # "nil" THEN created
    ELSE [created EXCEPT !.w.indexOfFinalNewline = -1,
                         !.w.maxBytes = IF cfg.MaxBytes < 1 THEN defaultMaxBytes
                                        ELSE cfg.MaxBytes,
                         !.w.timeFormatter = cfg.TimeFormatter,
                         !.w.flushThreshold = cfg.BufferBytes,
                         !.w.buf = <<>>]

\* Faulty variant of NewLogWriter: the log file is created before the
\* configuration is looked at.
NewLogWriterOpensFirst(m, cfg, e) ==
    IF cfg.BufferBytes < 0
    THEN [createLogFile(m, e) EXCEPT !.o.err = "cannot use negative flush threshold"]
    ELSE newPopulate(createLogFile(m, e), cfg)

\* NewLogWriter(cfg): the struct after construction, or a refusal.
NewLogWriter(m, cfg, e) ==
    IF cfg.BufferBytes < 0
    THEN [m EXCEPT !.o.err = "cannot use negative flush threshold"]
    ELSE newPopulate(createLogFile(m, e), cfg)

----------------------------------------------------------------------------
(* The extent-based writer (file.go).                                      *)

closeLog(m, e) ==
    [m EXCEPT !.w.filePointer = "nil",
              !.w.fileSizeNow = 0,
              !.o = Stepped(@, "close",
                            IF m.w.filePointer = "nil" THEN "invalid argument"
                            ELSE IF e.cl THEN "nil" ELSE "close error")]

\* Faulty variant of openLog: the file is opened with O_TRUNC, as the
\* index-based writer opens it.
openLogTruncates(m, e) ==
    IF ~e.op
    THEN [m EXCEPT !.w.filePointer = "nil",
                   !.o = Stepped(@, "create", "open error")]
    ELSE IF ~e.st
    THEN [m EXCEPT !.d.active = File(<<>>),
                   !.w.filePointer = "nil",
                   !.o = Stepped(@, "create", "stat error")]
    ELSE [m EXCEPT !.d.active = File(<<>>),
                   !.w.filePointer = "open",
                   !.w.fileSizeNow = 0,
                   !.o = [Stepped(@, "create", "nil") EXCEPT !.created = @ + 1]]

\* os.OpenFile with O_WRONLY|O_CREATE|O_APPEND, then Stat for the size.
openLog(m, e) ==
    IF ~e.op
    THEN [m EXCEPT !.w.filePointer = "nil",
                   !.o = Stepped(@, "create", "open error")]
    ELSE
      LET m1 == IF m.d.active.exists THEN m
                ELSE [m EXCEPT !.d.active = File(<<>>), !.o.created = @ + 1]
      IN IF ~e.st
         THEN [m1 EXCEPT !.w.filePointer = "nil",
                         !.o = Stepped(@, "create", "stat error")]
         ELSE [m1 EXCEPT !.w.filePointer = "open",
                         !.w.fileSizeNow = Len(m1.d.active.data),
                         !.o = Stepped(@, "create", "nil")]

renameLog(m, e) ==
    LET timeStamp == FormatTime(m.w.cfg.TimeFormatter, m.d.now)
        m1 == [m EXCEPT !.d.now = @ + 1, !.w.timeOfFirstWrite = ""]
    IN IF e.rn /\ m.d.active.exists
       THEN [m1 EXCEPT !.d = renameActive(@, timeStamp),
                       !.o = Stepped(@, "rename", "nil")]
       ELSE [m1 EXCEPT !.o = Stepped(@, "rename", "rename error")]

\* rotateLog, from the result of each step on: an error ends the sequence.
rotateLogOpen(renamed, e) ==
    IF renamed.o.err # "nil" THEN renamed ELSE openLog(renamed, e)

\* Faulty variant of rotateLogRename: the rename is tried after a failed close.
rotateLogRenameRegardless(closed, e) ==
    rotateLogOpen(renameLog(closed, e), e)

rotateLogRename(closed, e) ==
    IF closed.o.err # "nil" THEN closed ELSE rotateLogOpen(renameLog(closed, e), e)

XRotated(m, end) ==
    [end EXCEPT !.o.rot = Append(@, [ok |-> end.o.err = "nil",
                                       before |-> m.d,
                                       after |-> end.d,
                                       size |-> end.w.fileSizeNow])]

rotateLog(m, e) == XRotated(m, rotateLogRename(closeLog(m, e), e))

writeBytes(m, p, e) ==
    LET nw == fileWriteCount(m.w.filePointer, p, e)
        rerr == fileWriteErr(m.w.filePointer, p, e)
        m1 == [m EXCEPT !.d.active.data = @ \o fileWriteLanded(m.w.filePointer, p, e),
                        !.o = Handed(@, p, "bytes", <<>>, m.w.fileSizeNow, nw, rerr)]
    IN IF nw < 0 \/ nw > Len(p)
       THEN [m1 EXCEPT !.o.n = nw,
                       !.o.err = IF rerr # "nil" THEN rerr ELSE "invalid write result"]
       ELSE [m1 EXCEPT !.w.fileSizeNow = @ + nw,
                       !.o.n = nw,
                       !.o.err = IF nw < Len(p) /\ rerr = "nil" THEN "short write" ELSE rerr]

\* The loop of writeExtents that, after a failed write of nw bytes, finds the
\* extents written in full and shortens the one written in part.
RECURSIVE settleExtents(_, _, _, _)
settleExtents(extents, nw, extentCount, extentCountMax) ==
    IF nw > 0 /\ extentCount < extentCountMax
    THEN LET left == nw - extents[extentCount + 1]
         IN IF left < 0
            THEN settleExtents([extents EXCEPT ![extentCount + 1] = @ + left],
                               left, extentCount, extentCountMax)
            ELSE settleExtents(extents, left, extentCount + 1, extentCountMax)
    ELSE [extents |-> extents, nw |-> nw, extentCount |-> extentCount]

\* writeExtents after the file primitive reported (nw, rerr) for buf[:byteCount].
writeExtentsSettle(m, nw, rerr, extentCount, byteCount) ==
    IF nw < 0 \/ nw > byteCount
    THEN [m EXCEPT !.o.n = 0,
                   !.o.err = IF rerr # "nil" THEN rerr ELSE "invalid write result"]
    ELSE IF nw > Len(m.w.buf)
    THEN \* lw.buf[nw:] past the end of the buffer
         [m EXCEPT !.w.fileSizeNow = @ + nw,
                   !.o.n = 0,
                   !.o.err = "panic: slice bounds out of range"]
    ELSE
      LET err == IF nw < byteCount /\ rerr = "nil" THEN "short write" ELSE rerr
          st == IF err # "nil"
                THEN settleExtents(m.w.extents, nw, 0, extentCount)
                ELSE [extents |-> m.w.extents, nw |-> nw, extentCount |-> extentCount]
      IN [m EXCEPT !.w.fileSizeNow = @ + nw,
                   !.w.buf = Drop(@, nw),
                   !.w.cap = @ - nw,
                   !.w.extents = Drop(st.extents, st.extentCount),
                   !.o.n = st.nw,
                   !.o.err = err]

\* writeExtents from the write of data = buf[:byteCount] on.
writeExtentsData(m, data, extentCount, byteCount, e) ==
    writeExtentsSettle(
        [m EXCEPT !.d.active.data = @ \o fileWriteLanded(m.w.filePointer, data, e),
                  !.o = Handed(@, data, "extents", m.w.buf, m.w.fileSizeNow,
                               fileWriteCount(m.w.filePointer, data, e),
                               fileWriteErr(m.w.filePointer, data, e))],
        fileWriteCount(m.w.filePointer, data, e), fileWriteErr(m.w.filePointer, data, e),
        extentCount, byteCount)

\* lw.buf[:byteCount] reads zeroed memory when byteCount is past the length
\* of the buffer and panics when it is past its capacity.
writeExtents(m, extentCount, byteCount, e) ==
    IF byteCount <= Len(m.w.buf)
    THEN writeExtentsData(m, Take(m.w.buf, byteCount), extentCount, byteCount, e)
    ELSE IF byteCount <= m.w.cap
    THEN writeExtentsData(m, m.w.buf \o Stale(byteCount - Len(m.w.buf)),
                          extentCount, byteCount, e)
    ELSE [m EXCEPT !.o.n = 0, !.o.err = "panic: slice bounds out of range"]

\* The loop of flushAsMuchAsPossible: the leading extents that fit in
\* bytesRemaining, as [count, bytes].
RECURSIVE extentsThatFit(_, _, _, _, _)
extentsThatFit(extents, flushExtentCount, flushByteCount, flushExtentCountMax, bytesRemaining) ==
    IF flushExtentCount < flushExtentCountMax
    THEN LET fbc == flushByteCount + extents[flushExtentCount + 1]
         IN IF fbc > bytesRemaining
            THEN [count |-> flushExtentCount, bytes |-> flushByteCount]
            ELSE extentsThatFit(extents, flushExtentCount + 1, fbc,
                                flushExtentCountMax, bytesRemaining)
    ELSE [count |-> flushExtentCount, bytes |-> flushByteCount]

\* The history of the writes r made after m, marked with their caller.
Tagged(m, r, via) ==
    [r EXCEPT !.o.handed = [i \in 1..Len(@) |->
                              IF i > Len(m.o.handed) THEN [@[i] EXCEPT !.via = via]
                              ELSE @[i]]]

\* flushAsMuchAsPossible once the extents that fit are known.
flushFitting(m, fit, e) ==
    IF fit.count = 0 THEN [m EXCEPT !.o.err = "nil"]
    ELSE Tagged(m, writeExtents(m, fit.count, fit.bytes, e), "fit")

flushAsMuchAsPossible(m, e) ==
    LET flushExtentCountMax ==
            Len(m.w.extents) - (IF m.w.waitingForNewline THEN 1 ELSE 0)
        bytesRemaining == m.w.cfg.MaxBytes - m.w.fileSizeNow
    IN IF flushExtentCountMax = 0 THEN [m EXCEPT !.o.err = "nil"]
       ELSE flushFitting(m, extentsThatFit(m.w.extents, 0, 0, flushExtentCountMax,
                                           bytesRemaining), e)

\* One turn of the loop of flushCompletedExtents when the first extent does
\* not fit in the open file, from the rotation on.
flushOversize(m, e) ==
    IF m.w.extents[1] > m.w.cfg.MaxBytes
    THEN writeExtents(m, 1, m.w.extents[1], e)
    ELSE flushAsMuchAsPossible(m, e)

flushRotatedLog(rotated, e) ==
    IF rotated.o.err # "nil" THEN rotated ELSE flushOversize(rotated, e)

\* Faulty variant of flushTurn: a file that holds bytes is kept when the
\* first extent does not fit in it.
flushTurnKeepsFile(m, e) ==
    IF IsPanic(m.o.err) THEN m
    ELSE IF m.w.extents[1] + m.w.fileSizeNow > m.w.cfg.MaxBytes
    THEN IF m.w.fileSizeNow > 0
         THEN flushAsMuchAsPossible(m, e)
         ELSE flushOversize(m, e)
    ELSE flushAsMuchAsPossible(m, e)

\* One turn of the loop of flushCompletedExtents.
flushTurn(m, e) ==
    IF IsPanic(m.o.err) THEN m
    ELSE IF m.w.extents[1] + m.w.fileSizeNow > m.w.cfg.MaxBytes
    THEN IF m.w.fileSizeNow > 0
         THEN flushRotatedLog(rotateLog(m, e), e)
         ELSE flushOversize(m, e)
    ELSE flushAsMuchAsPossible(m, e)

RECURSIVE flushCompletedExtents(_, _)
flushAgain(turned, e) ==
    IF turned.o.err # "nil" THEN turned ELSE flushCompletedExtents(turned, e)

flushCompletedExtents(m, e) ==
    IF IsPanic(m.o.err) THEN m
    ELSE IF Len(m.w.extents) = 0 THEN [m EXCEPT !.o.err = "nil"]
    ELSE IF Len(m.w.extents) = 1 /\ m.w.waitingForNewline THEN [m EXCEPT !.o.err = "nil"]
    ELSE flushAgain(flushTurn(m, e), e)

\* The test of a buffered Write that flushes before it appends p.
bufferMustFlush(w, p) ==
    /\ Len(w.buf) > 0
    /\ Len(w.buf) + Len(p) > w.cfg.BufferSizeMax
    /\ (Len(w.extents) > 1 \/ ~w.waitingForNewline)

\* Faulty variant of extentsWith: the bytes of p after its last newline become an
\* extent of their own.
extentsSplitAtNewline(w, p) ==
    LET k == LastIndexByte(p) + 1
        head == IF w.waitingForNewline
                THEN [w.extents EXCEPT ![Len(w.extents)] = @ + (IF k = 0 THEN Len(p) ELSE k)]
                ELSE Append(w.extents, IF k = 0 THEN Len(p) ELSE k)
    IN IF k = 0 \/ k = Len(p) THEN head ELSE Append(head, Len(p) - k)

\* The extents after a buffered Write took p in.
extentsWith(w, p) ==
    IF w.waitingForNewline
    THEN [w.extents EXCEPT ![Len(w.extents)] = @ + Len(p)]
    ELSE Append(w.extents, Len(p))

\* A buffered Write from the append of p on; p[len(p)-1] panics on an empty p.
writeAppendExtent(m, p) ==
    LET m1 == [m EXCEPT !.w.extents = extentsWith(m.w, p),
                        !.w.buf = @ \o p,
                        !.w.cap = AppendCap(@, Len(m.w.buf), Len(p))]
    IN IF m.w.waitingForNewline /\ Len(m.w.extents) = 0
       THEN [m EXCEPT !.o.n = 0, !.o.err = "panic: index out of range"]
       ELSE IF Len(p) = 0
       THEN [m1 EXCEPT !.o.n = 0, !.o.err = "panic: index out of range"]
       ELSE [m1 EXCEPT !.w.waitingForNewline = ~IsNewline(p[Len(p)]),
                       !.o.n = Len(p),
                       !.o.err = "nil"]

\* Faulty variant of writeFlushed: a Write that flushed reports no byte accepted.
writeFlushedReportsZero(flushed, p) ==
    IF flushed.o.err # "nil"
    THEN [flushed EXCEPT !.o.n = 0]
    ELSE [writeAppendExtent(flushed, p) EXCEPT !.o.n = 0]

writeFlushed(flushed, p) ==
    IF flushed.o.err # "nil"
    THEN [flushed EXCEPT !.o.n = 0]
    ELSE writeAppendExtent(flushed, p)

\* The test of an unbuffered Write that rotates before it writes p.
bytesNeedRotate(w, p) ==
    w.fileSizeNow > 0 /\ w.fileSizeNow + Len(p) > w.cfg.MaxBytes

writeRotatedLog(rotated, p, e) ==
    IF rotated.o.err # "nil"
    THEN [rotated EXCEPT !.o.n = 0]
    ELSE writeBytes(rotated, p, e)

\* Write after the time of the first write was noted.
writeNoted(m, p, e) ==
    IF m.w.cfg.BufferSizeMax > 0
    THEN IF bufferMustFlush(m.w, p)
         THEN writeFlushed(flushCompletedExtents(m, e), p)
         ELSE writeAppendExtent(m, p)
    ELSE IF bytesNeedRotate(m.w, p)
         THEN writeRotatedLog(rotateLog(m, e), p, e)
         ELSE writeBytes(m, p, e)

XWrite(m, p, e) ==
    writeNoted([m EXCEPT !.w.timeOfFirstWrite = IF @ = "" THEN "set" ELSE @], p, e)

\* Faulty variant of closeTerminate: the waiting extent is taken as complete without
\* its newline.
closeNoNewline(m) == [m EXCEPT !.w.waitingForNewline = FALSE]

\* Close: a buffer that waits for its newline gets one.
closeTerminate(m) ==
    IF m.w.waitingForNewline /\ Len(m.w.extents) = 0
    THEN [m EXCEPT !.w.buf = Append(@, Byte(CloseOrigin, TRUE)),
                   !.w.cap = AppendCap(@, Len(m.w.buf), 1),
                   !.o.err = "panic: index out of range"]
    ELSE IF m.w.waitingForNewline
    THEN [m EXCEPT !.w.buf = Append(@, Byte(CloseOrigin, TRUE)),
                   !.w.cap = AppendCap(@, Len(m.w.buf), 1),
                   !.w.extents[Len(m.w.extents)] = @ + 1,
                   !.w.waitingForNewline = FALSE]
    ELSE m

closeFlushed(flushed, e) ==
    IF IsPanic(flushed.o.err) THEN flushed
    ELSE IF flushed.o.err # "nil"
    THEN [closeLog(flushed, e) EXCEPT !.o.err = flushed.o.err]
    ELSE closeLog(flushed, e)

XClose(m, e) ==
    IF Len(m.w.buf) > 0
    THEN closeFlushed(flushCompletedExtents(closeTerminate(m), e), e)
    ELSE closeLog(m, e)

XNewLogWriter(m, cfg, e) ==
    LET BufferSizeMax == IF cfg.BufferSizeMax = -1 THEN 0
                         ELSE IF cfg.BufferSizeMax = 0 THEN defaultBufferSizeMax
                         ELSE cfg.BufferSizeMax
        MaxBytes == IF cfg.MaxBytes = 0 THEN defaultMaxBytes ELSE cfg.MaxBytes
    IN IF BufferSizeMax < 0
       THEN [m EXCEPT !.o.err = "cannot use negative flush threshold"]
       ELSE openLog([m EXCEPT !.w.cfg = [BufferSizeMax |-> BufferSizeMax,
                                         MaxBytes |-> MaxBytes,
                                         TimeFormatter |-> cfg.TimeFormatter],
                              !.w.cap = BufferSizeMax], e)

----------------------------------------------------------------------------
(* State machine of the index-based writer.                                *)

TimeFormatters == {"nano", "coarse"}

Configs ==
    [BufferBytes : -1..MaxBuffer,
     MaxBytes : 0..MaxBytesMax,
     TimeFormatter : TimeFormatters]

\* The zero value of the struct before NewLogWriter fills it in.
ZeroLogWriter ==
    [buf |-> <<>>, maxBytes |-> 0, writtenBytes |-> 0, timeFormatter |-> "nano",
     filePointer |-> "nil", flushThreshold |-> 0, indexOfFinalNewline |-> 0]

ZeroXLogWriter ==
    [cfg |-> [BufferSizeMax |-> 0, MaxBytes |-> 0, TimeFormatter |-> "nano"],
     buf |-> <<>>, extents |-> <<>>, timeOfFirstWrite |-> "", fileSizeNow |-> 0,
     filePointer |-> "nil", waitingForNewline |-> FALSE, cap |-> 0]

EmptyDisk == [active |-> NoFile, rotated |-> <<>>, now |-> 1]

\* The directory before construction: no log file, or one left by an earlier
\* run that ends in the middle of a line or at the end of one.
InitDisks ==
    {EmptyDisk,
     [EmptyDisk EXCEPT !.active = File(<<Byte(0, FALSE)>>)],
     [EmptyDisk EXCEPT !.active = File(<<Byte(0, TRUE)>>)]}

ZeroObs ==
    [op |-> "none", calls |-> 0, fed |-> <<>>, n |-> 0, err |-> "nil",
     handed |-> <<>>, rot |-> <<>>, created |-> 0, sum |-> 0, pre |-> <<>>,
     steps |-> <<>>, impl |-> "none", faults |-> 0, asked |-> 0]

\* The history at the start of an operation: what one call reports is its own.
Begin(o, op) ==
    [o EXCEPT !.op = op, !.handed = <<>>, !.rot = <<>>, !.steps = <<>>, !.n = 0, !.err = "nil"]

\* The history of a construction: the buffer size the configuration asked for.
Asked(o, size) == [o EXCEPT !.asked = size]

\* The history once the next Write call passed p.
Fed(o, p) == [o EXCEPT !.calls = @ + 1, !.fed = @ \o p]

\* The goroutines that call the writer, and the frame of one that is not
\* inside a call.
Callers == {1, 2}

IdleFrame == [pc |-> "idle", p |-> <<>>, call |-> 0, origBufLen |-> 0, index |-> 0, nw |-> 0]

\* No call in progress. (serialized: the callers share a mutex that mu holds.)
NoCalls(serialized) ==
    [serialized |-> serialized, mu |-> 0, frame |-> [g \in Callers |-> IdleFrame],
     returned |-> {}, tick |-> FALSE]

InitIdx ==
    /\ phase = "new"
    /\ lw = ZeroLogWriter
    /\ xw = ZeroXLogWriter
    /\ disk \in InitDisks
    /\ obs = ZeroObs
    /\ run = NoCalls(TRUE)

Machine == [w |-> lw, d |-> disk, o |-> obs]

\* The machine an operation ended in becomes the next state.
\* (sum adds up the counts the Write calls returned.)
Summed(o) == [o EXCEPT !.sum = IF o.op = "Write" THEN @ + o.n ELSE @]

IdxCommit(m, next) ==
    /\ lw' = m.w
    /\ disk' = m.d
    /\ obs' = Summed(m.o)
    /\ phase' = next
    /\ UNCHANGED <<xw, run>>

Opened(m) == IF m.o.err = "nil" THEN "open" ELSE "failed"

IdxNew ==
    /\ phase = "new"
    /\ \E cfg \in Configs :
         LET m == NewLogWriter([Machine EXCEPT !.o = Asked(Begin(@, "New"), cfg.BufferBytes)],
                               cfg, NoFault)
         IN IdxCommit(m, Opened(m))

IdxWrite ==
    /\ phase = "open"
    /\ obs.calls < MaxWrites
    /\ \E p \in Chunks(obs.calls + 1) :
         IdxCommit(Write([Machine EXCEPT !.o = Fed(Begin(@, "Write"), p)], p, NoFault),
                   "open")

IdxClose ==
    /\ phase = "open"
    /\ IdxCommit(Close([Machine EXCEPT !.o = Begin(@, "Close")], NoFault), "closed")

NextIdx == IdxNew \/ IdxWrite \/ IdxClose

SpecIdx == InitIdx /\ [][NextIdx]_vars

----------------------------------------------------------------------------
(* State machine of the extent-based writer.                               *)

XConfigs ==
    [BufferSizeMax : -2..MaxBuffer,
     MaxBytes : 0..MaxBytesMax,
     TimeFormatter : TimeFormatters]

InitExt == InitIdx

XMachine == [w |-> xw, d |-> disk, o |-> obs]

ExtCommit(m, next) ==
    /\ xw' = m.w
    /\ disk' = m.d
    /\ obs' = Summed(m.o)
    /\ phase' = next
    /\ UNCHANGED <<lw, run>>

Written(m) == IF IsPanic(m.o.err) THEN "panicked" ELSE "open"

XClosed(m, next) == IF IsPanic(m.o.err) THEN "panicked" ELSE next

ExtNew ==
    /\ phase = "new"
    /\ \E cfg \in XConfigs :
         LET m == XNewLogWriter(
                      [XMachine EXCEPT !.o = [Asked(Begin(@, "New"), cfg.BufferSizeMax)
                                               EXCEPT !.pre = disk.active.data]],
                      cfg, NoFault)
         IN ExtCommit(m, Opened(m))

ExtWrite ==
    /\ phase = "open"
    /\ obs.calls < MaxWrites
    /\ \E p \in Chunks(obs.calls + 1) :
         LET m == XWrite([XMachine EXCEPT !.o = Fed(Begin(@, "Write"), p)], p, NoFault)
         IN ExtCommit(m, Written(m))

ExtClose ==
    /\ phase = "open"
    /\ LET m == XClose([XMachine EXCEPT !.o = Begin(@, "Close")], NoFault)
       IN ExtCommit(m, XClosed(m, "closed"))

NextExt == ExtNew \/ ExtWrite \/ ExtClose

SpecExt == InitExt /\ [][NextExt]_vars

----------------------------------------------------------------------------
(* Either writer, for what holds of both.                                  *)

InitBoth ==
    /\ phase = "new"
    /\ lw = ZeroLogWriter
    /\ xw = ZeroXLogWriter
    /\ disk \in InitDisks
    /\ obs \in {[ZeroObs EXCEPT !.impl = i] : i \in {"idx", "ext"}}
    /\ run = NoCalls(TRUE)

NextBoth ==
    \/ obs.impl = "idx" /\ NextIdx
    \/ obs.impl = "ext" /\ NextExt

\* Either writer without faults, constructed at any reading of the clock
\* within one period of the coarse time format: time.Now() is read anew at
\* every rename, and two readings may fall in the same period.
ClockReadings == 1..CoarseTicks

InitClock ==
    /\ phase = "new"
    /\ lw = ZeroLogWriter
    /\ xw = ZeroXLogWriter
    /\ disk \in {[d EXCEPT !.now = t] : d \in InitDisks, t \in ClockReadings}
    /\ obs \in {[ZeroObs EXCEPT !.impl = i] : i \in {"idx", "ext"}}
    /\ run = NoCalls(TRUE)

SpecClock == InitClock /\ [][NextBoth]_vars

SpecBoth == InitBoth /\ [][NextBoth]_vars

----------------------------------------------------------------------------
(* State machine of both writers over a file system that may fail: in up   *)
(* to MaxFaults operations of a run one file primitive misbehaves, and     *)
(* Close may be called again on a closed writer.                           *)

\* A write that stops MaxShort or fewer bytes early, or reports a count that
\* is negative or larger than the length it was given.
WriteFaults ==
    {[NoFault EXCEPT !.wr = k] : k \in 1..MaxShort}
        \cup {[NoFault EXCEPT !.wr = -1], [NoFault EXCEPT !.wr = -2]}

\* A close, a rename or an open that fails.
RotationFaults ==
    {[NoFault EXCEPT !.cl = FALSE], [NoFault EXCEPT !.rn = FALSE],
     [NoFault EXCEPT !.op = FALSE]}

\* The extent-based writer also asks for the size of the file it opened.
StatFaults == {[NoFault EXCEPT !.st = FALSE]}

IdxFaults == WriteFaults \cup RotationFaults
ExtFaults == WriteFaults \cup RotationFaults \cup StatFaults

\* The configurations tried over a failing file system: unbuffered, the
\* smallest and the largest buffer; the smallest and the largest MaxBytes;
\* timestamps that never collide.
FaultConfigs ==
    {c \in Configs : /\ c.BufferBytes \in {0, 1, MaxBuffer}
                     /\ c.MaxBytes \in {1, MaxBytesMax}
                     /\ c.TimeFormatter = "nano"}

FaultXConfigs ==
    {c \in XConfigs : /\ c.BufferSizeMax \in {-1, 1, MaxBuffer}
                      /\ c.MaxBytes \in {1, MaxBytesMax}
                      /\ c.TimeFormatter = "nano"}

\* The environments the next operation may meet, of the given faults.
FaultsNow(faults) == IF obs.faults < MaxFaults THEN {NoFault} \cup faults ELSE {NoFault}

\* The history at the start of an operation that meets environment e.
BeginIn(o, op, e) ==
    [Begin(o, op) EXCEPT !.faults = IF e = NoFault THEN @ ELSE @ + 1]

InitIn(impls) ==
    /\ phase = "new"
    /\ lw = ZeroLogWriter
    /\ xw = ZeroXLogWriter
    /\ disk \in InitDisks
    /\ obs \in {[ZeroObs EXCEPT !.impl = i] : i \in impls}
    /\ run = NoCalls(TRUE)

IdxNewIn(faults) ==
    /\ phase = "new" /\ obs.impl = "idx"
    /\ \E cfg \in FaultConfigs, e \in FaultsNow(faults) :
         LET m == NewLogWriter([Machine EXCEPT !.o = Asked(BeginIn(@, "New", e), cfg.BufferBytes)],
                               cfg, e)
         IN IdxCommit(m, Opened(m))

IdxWriteIn(faults) ==
    /\ phase = "open" /\ obs.impl = "idx"
    /\ obs.calls < MaxWrites
    /\ \E p \in Chunks(obs.calls + 1), e \in FaultsNow(faults) :
         IdxCommit(Write([Machine EXCEPT !.o = Fed(BeginIn(@, "Write", e), p)], p, e),
                   "open")

IdxCloseIn(faults) ==
    /\ phase = "open" /\ obs.impl = "idx"
    /\ \E e \in FaultsNow(faults) :
         IdxCommit(Close([Machine EXCEPT !.o = BeginIn(@, "Close", e)], e), "closed")

ExtNewIn(faults) ==
    /\ phase = "new" /\ obs.impl = "ext"
    /\ \E cfg \in FaultXConfigs, e \in FaultsNow(faults) :
         LET m == XNewLogWriter(
                      [XMachine EXCEPT !.o = [Asked(BeginIn(@, "New", e), cfg.BufferSizeMax)
                                               EXCEPT !.pre = disk.active.data]],
                      cfg, e)
         IN ExtCommit(m, Opened(m))

ExtWriteIn(faults) ==
    /\ phase = "open" /\ obs.impl = "ext"
    /\ obs.calls < MaxWrites
    /\ \E p \in Chunks(obs.calls + 1), e \in FaultsNow(faults) :
         LET m == XWrite([XMachine EXCEPT !.o = Fed(BeginIn(@, "Write", e), p)], p, e)
         IN ExtCommit(m, Written(m))

ExtCloseIn(faults) ==
    /\ phase = "open" /\ obs.impl = "ext"
    /\ \E e \in FaultsNow(faults) :
         LET m == XClose([XMachine EXCEPT !.o = BeginIn(@, "Close", e)], e)
         IN ExtCommit(m, XClosed(m, "closed"))

\* The index-based writer over a file system whose writes, closes, renames
\* and opens may fail.
IdxNewF == IdxNewIn(IdxFaults)
IdxWriteF == IdxWriteIn(IdxFaults)
IdxCloseF == IdxCloseIn(IdxFaults)

InitIdxF == InitIn({"idx"})
NextIdxF == IdxNewF \/ IdxWriteF \/ IdxCloseF
SpecIdxF == InitIdxF /\ [][NextIdxF]_vars

\* The extent-based writer over the same, where Close may be called again
\* on a writer that was closed before.
ExtNewF == ExtNewIn(ExtFaults)
ExtWriteF == ExtWriteIn(ExtFaults)
ExtCloseF == ExtCloseIn(ExtFaults)

ExtCloseAgain ==
    /\ phase \in {"closed", "reclosed"} /\ obs.impl = "ext"
    /\ LET m == XClose([XMachine EXCEPT !.o = Begin(@, "Close")], NoFault)
       IN ExtCommit(m, XClosed(m, "reclosed"))

InitExtF == InitIn({"ext"})
NextExtF == ExtNewF \/ ExtWriteF \/ ExtCloseF \/ ExtCloseAgain
SpecExtF == InitExtF /\ [][NextExtF]_vars

\* Either writer over a file system whose writes succeed and whose closes,
\* renames, opens and size queries may fail: the rotations that break off.
IdxNewR == IdxNewIn(RotationFaults)
IdxWriteR == IdxWriteIn(RotationFaults)
IdxCloseR == IdxCloseIn(RotationFaults)
ExtNewR == ExtNewIn(RotationFaults \cup StatFaults)
ExtWriteR == ExtWriteIn(RotationFaults \cup StatFaults)
ExtCloseR == ExtCloseIn(RotationFaults \cup StatFaults)

InitRot == InitIn({"idx", "ext"})
NextRot == IdxNewR \/ IdxWriteR \/ IdxCloseR \/ ExtNewR \/ ExtWriteR \/ ExtCloseR
SpecRot == InitRot /\ [][NextRot]_vars

----------------------------------------------------------------------------
(* Two goroutines that call Write of one index-based writer, a statement   *)
(* at a time. The struct has no lock of its own: the callers either share  *)
(* a mutex that each holds from the call to the return (run.serialized),   *)
(* or they call as they please. The file system does not fail. A call of   *)
(* a file primitive, and rotate as a whole, is one step.                   *)

\* origBufLen := len(lw.buf)
writeReadLen(f, w) == [f EXCEPT !.origBufLen = Len(w.buf), !.pc = "append"]

\* lw.buf = append(lw.buf, p...)
writeAppendTo(w, p) == [w EXCEPT !.buf = @ \o p]

\* Faulty variant of writeRecordIndex: the index of the newline in p is taken
\* for its index in the buffer.
writeRecordIndexInChunk(w, p, origBufLen) ==
    IF LastIndexByte(p) >= 0
    THEN [w EXCEPT !.indexOfFinalNewline = LastIndexByte(p)]
    ELSE w

\* if index := bytes.LastIndexByte(p, '\n'); index >= 0 { ... }
writeRecordIndex(w, p, origBufLen) ==
    IF LastIndexByte(p) >= 0
    THEN [w EXCEPT !.indexOfFinalNewline = origBufLen + LastIndexByte(p)]
    ELSE w

\* lw.buf[:index] of a buffer shorter than index: a panic when index passes
\* the capacity, else bytes left behind the length by earlier appends.
flushSlices(w, index) ==
    IF index <= Len(w.buf) THEN {Take(w.buf, index)}
    ELSE {<<>>, w.buf \o Stale(index - Len(w.buf))}

\* nw, err := lw.filePointer.Write(lw.buf[:index])
flushHand(m, data) ==
    [m EXCEPT !.d.active.data = @ \o fileWriteLanded(m.w.filePointer, data, NoFault)]

\* A frame at its return, and what the call returned.
Returned(r, g, n, err) ==
    [r EXCEPT !.frame[g] = IdleFrame,
              !.mu = 0,
              !.returned = @ \cup {[g |-> g, call |-> r.frame[g].call, n |-> n,
                                    err |-> err, len |-> Len(r.frame[g].p)]}]

At(r, g, f) == [r EXCEPT !.frame[g] = f]

\* The history of a call is kept by its frame: the struct's history holds
\* what was fed in.
Quiet(o) == [o EXCEPT !.handed = <<>>, !.rot = <<>>, !.steps = <<>>, !.err = "nil", !.n = 0]

ConcCommit(m, next, r) ==
    /\ lw' = m.w
    /\ disk' = m.d
    /\ obs' = Quiet(m.o)
    /\ phase' = next
    /\ run' = r
    /\ UNCHANGED xw

InitConc ==
    /\ phase = "new"
    /\ lw = ZeroLogWriter
    /\ xw = ZeroXLogWriter
    /\ disk \in InitDisks
    /\ obs = [ZeroObs EXCEPT !.impl = "idx"]
    /\ run \in {NoCalls(s) : s \in BOOLEAN}

ConcNew ==
    /\ phase = "new"
    /\ \E cfg \in FaultConfigs :
         LET m == NewLogWriter([Machine EXCEPT !.o = Asked(Begin(@, "New"), cfg.BufferBytes)],
                               cfg, NoFault)
         IN ConcCommit(m, Opened(m), run)

\* A goroutine calls Write(p), once; under the mutex it waits for its turn.
ConcCall(g) ==
    /\ phase = "open"
    /\ run.frame[g].pc = "idle"
    /\ \A c \in run.returned : c.g # g
    /\ obs.calls < MaxWrites
    /\ run.serialized => run.mu = 0
    /\ \E p \in Chunks(obs.calls + 1) :
         ConcCommit([Machine EXCEPT !.o = Fed(Begin(@, "Write"), p)], "open",
                    [run EXCEPT !.mu = IF run.serialized THEN g ELSE 0,
                                !.frame[g] = [IdleFrame EXCEPT !.pc = "entry", !.p = p,
                                                               !.call = obs.calls + 1]])

\* if lw.flushThreshold == 0 { if total > lw.maxBytes ... } / origBufLen := len(lw.buf)
ConcEntry(g) ==
    LET f == run.frame[g]
    IN /\ phase = "open" /\ f.pc = "entry"
       /\ ConcCommit(Machine, "open",
                     At(run, g, IF lw.flushThreshold = 0
                                THEN [f EXCEPT !.pc = IF writeNeedsRotate(lw, f.p)
                                                      THEN "rotate" ELSE "direct"]
                                ELSE writeReadLen(f, lw)))

\* lw.rotate(), of the unbuffered Write and of flush
ConcRotate(g) ==
    LET f == run.frame[g]
        m == rotate(Machine, NoFault)
    IN /\ phase = "open" /\ f.pc \in {"rotate", "flushRotate"}
       /\ IF m.o.err # "nil"
          THEN ConcCommit(m, "open", Returned(run, g, 0, m.o.err))
          ELSE ConcCommit(m, "open",
                          At(run, g, [f EXCEPT !.pc = IF f.pc = "rotate" THEN "direct"
                                                      ELSE "flushWrite"]))

\* n, err := lw.filePointer.Write(p); lw.writtenBytes += int64(n); return n, err
ConcDirect(g) ==
    LET f == run.frame[g]
        m == writeDirect(Machine, f.p, NoFault)
    IN /\ phase = "open" /\ f.pc = "direct"
       /\ ConcCommit(m, "open", Returned(run, g, m.o.n, m.o.err))

\* lw.buf = append(lw.buf, p...)
ConcAppend(g) ==
    LET f == run.frame[g]
    IN /\ phase = "open" /\ f.pc = "append"
       /\ ConcCommit([Machine EXCEPT !.w = writeAppendTo(@, f.p)], "open",
                     At(run, g, [f EXCEPT !.pc = "index"]))

ConcIndex(g) ==
    LET f == run.frame[g]
    IN /\ phase = "open" /\ f.pc = "index"
       /\ ConcCommit([Machine EXCEPT !.w = writeRecordIndex(@, f.p, f.origBufLen)], "open",
                     At(run, g, [f EXCEPT !.pc = "test"]))

\* if len(lw.buf) <= lw.flushThreshold || lw.indexOfFinalNewline < 0 { return }
\* return lw.flush(origBufLen, len(p), lw.indexOfFinalNewline+1)
ConcTest(g) ==
    LET f == run.frame[g]
    IN /\ phase = "open" /\ f.pc = "test"
       /\ IF noFlushYet(lw)
          THEN ConcCommit(Machine, "open", Returned(run, g, Len(f.p), "nil"))
          ELSE ConcCommit(Machine, "open",
                          At(run, g, [f EXCEPT !.index = flushIndex(lw),
                                               !.pc = IF flushNeedsRotate(lw, flushIndex(lw))
                                                      THEN "flushRotate" ELSE "flushWrite"]))

\* nw, err := lw.filePointer.Write(lw.buf[:index])
ConcFlushWrite(g) ==
    LET f == run.frame[g]
    IN /\ phase = "open" /\ f.pc = "flushWrite"
       /\ \E data \in flushSlices(lw, f.index) :
            IF Len(data) < f.index
            THEN ConcCommit(Machine, "panicked", run)
            ELSE ConcCommit(flushHand(Machine, data), "open",
                            At(run, g, [f EXCEPT !.nw = fileWriteCount(lw.filePointer, data,
                                                                       NoFault),
                                                 !.pc = "settle"]))

\* flush from the result of the write on; lw.buf[nw:] panics on a buffer
\* that another call cut below nw.
ConcSettle(g) ==
    LET f == run.frame[g]
        m == flushSettle(Machine, f.nw, "nil", f.origBufLen, Len(f.p), f.index)
    IN /\ phase = "open" /\ f.pc = "settle"
       /\ IF f.nw > Len(lw.buf)
          THEN ConcCommit(Machine, "panicked", run)
          ELSE ConcCommit(m, "open", Returned(run, g, m.o.n, m.o.err))

NextConc ==
    \/ ConcNew
    \/ \E g \in Callers :
         \/ ConcCall(g)
         \/ ConcEntry(g)
         \/ ConcRotate(g)
         \/ ConcDirect(g)
         \/ ConcAppend(g)
         \/ ConcIndex(g)
         \/ ConcTest(g)
         \/ ConcFlushWrite(g)
         \/ ConcSettle(g)

SpecConc == InitConc /\ [][NextConc]_vars

----------------------------------------------------------------------------
(* The extent-based writer with the loop of flushCompletedExtents taken a  *)
(* turn at a time: a Write or a Close that has to flush enters the phase   *)
(* "flushing" and stays in it until the loop ends. Each turn meets its own *)
(* environment. The goroutine inside the call keeps running: while it is   *)
(* in the loop, a next turn is taken (fairness of TurnPasses).             *)

TurnCommit(m, next, r) ==
    /\ xw' = m.w
    /\ disk' = m.d
    /\ obs' = m.o
    /\ phase' = next
    /\ run' = r
    /\ UNCHANGED lw

\* The history of a turn that meets environment e.
Charged(o, e) == [o EXCEPT !.faults = IF e = NoFault THEN @ ELSE @ + 1]

\* The call that flushes: Write(p), Close, or Close of a closed writer.
Flushing(r, p, again) ==
    At(r, 1, [IdleFrame EXCEPT !.pc = "flush", !.p = p, !.call = IF again THEN 1 ELSE 0])

\* The call returns.
TurnWriteEnd(m) == TurnCommit([m EXCEPT !.o = Summed(@)], Written(m), NoCalls(TRUE))

TurnCloseEnd(m, next) == TurnCommit(m, XClosed(m, next), NoCalls(TRUE))

\* The loop runs in buffered mode only.
TurnConfigs == {c \in FaultXConfigs : c.BufferSizeMax > 0}

TurnNew ==
    /\ phase = "new"
    /\ \E cfg \in TurnConfigs, e \in FaultsNow(ExtFaults) :
         LET m == XNewLogWriter(
                      [XMachine EXCEPT !.o = [Asked(BeginIn(@, "New", e), cfg.BufferSizeMax)
                                               EXCEPT !.pre = disk.active.data]],
                      cfg, e)
         IN ExtCommit(m, Opened(m))

\* A buffered Write that need not flush calls no file primitive.
TurnWrite ==
    /\ phase = "open"
    /\ obs.calls < TurnWrites
    /\ \E p \in Chunks(obs.calls + 1) :
         IF bufferMustFlush(xw, p)
         THEN TurnCommit([XMachine EXCEPT !.o = Fed(Begin(@, "Write"), p),
                                          !.w.timeOfFirstWrite = IF @ = "" THEN "set" ELSE @],
                         "flushing", Flushing(run, p, FALSE))
         ELSE TurnWriteEnd(XWrite([XMachine EXCEPT !.o = Fed(Begin(@, "Write"), p)],
                                  p, NoFault))

\* Close from the newline it may add on.
TurnTerminated(m, again) ==
    IF IsPanic(m.o.err)
    THEN TurnCommit(m, "panicked", run)
    ELSE TurnCommit(m, "flushing", Flushing(run, <<>>, again))

TurnClose ==
    /\ phase \in {"open", "closed"}
    /\ \E e \in FaultsNow(ExtFaults) :
         IF Len(xw.buf) > 0
         THEN /\ e = NoFault
              /\ TurnTerminated(closeTerminate([XMachine EXCEPT !.o = Begin(@, "Close")]),
                                phase = "closed")
         ELSE TurnCloseEnd(closeLog([XMachine EXCEPT !.o = BeginIn(@, "Close", e)], e),
                           IF phase = "open" THEN "closed" ELSE "reclosed")

\* The loop is over: Write takes p in unless the flush failed, Close closes
\* the file.
TurnEnd(r, e) ==
    IF obs.op = "Write"
    THEN TurnWriteEnd(writeFlushed(r, run.frame[1].p))
    ELSE TurnCloseEnd(closeFlushed(r, e),
                      IF run.frame[1].call = 0 THEN "closed" ELSE "reclosed")

\* The test of the loop of flushCompletedExtents, and its break.
flushLoopEnds(w) ==
    Len(w.extents) = 0 \/ (Len(w.extents) = 1 /\ w.waitingForNewline)

\* After a turn: an error ends the loop, else the next turn follows (tick
\* tells one turn from the next).
TurnTurned(t, e) ==
    IF t.o.err # "nil" THEN TurnEnd(t, e)
    ELSE TurnCommit(t, "flushing", [run EXCEPT !.tick = ~@])

TurnLoop ==
    /\ phase = "flushing"
    /\ \E e \in FaultsNow(ExtFaults) :
         IF flushLoopEnds(xw)
         THEN /\ obs.op = "Write" => e = NoFault
              /\ TurnEnd([XMachine EXCEPT !.o = [Charged(@, e) EXCEPT !.err = "nil"]], e)
         ELSE TurnTurned(flushTurn([XMachine EXCEPT !.o = Charged(@, e)], e), e)

\* The goroutine in the loop takes its next turn.
TurnPasses == phase = "flushing" /\ run' = [run EXCEPT !.tick = ~@]

\* Weak fairness of TurnPasses, WF_vars(TurnPasses), with its enabling
\* condition written out: a turn can be taken exactly while the call is in
\* the loop.
TurnFairness == []<>(phase # "flushing") \/ []<><<TurnPasses>>_vars

InitTurn == InitIn({"ext"})
NextTurn == TurnNew \/ TurnWrite \/ TurnClose \/ TurnLoop
SpecTurn == InitTurn /\ [][NextTurn]_vars /\ TurnFairness

----------------------------------------------------------------------------
(* What the claims speak about.                                            *)

\* The output files: 0 is the file at the active path, i > 0 the i-th
\* timestamped file.
FileIds == (IF disk.active.exists THEN {0} ELSE {}) \cup 1..Len(disk.rotated)
FileData(i) == IF i = 0 THEN disk.active.data ELSE disk.rotated[i].data

\* The bytes the c-th Write call passed.
CallData(c) == SelectSeq(obs.fed, LAMBDA b : Origin(b) = c)
BytesOf(s, c) == SelectSeq(s, LAMBDA b : Origin(b) = c)
FilesHolding(c) == {i \in FileIds : BytesOf(FileData(i), c) # <<>>}

IdxRunning == phase \in {"open", "closed"}
Buffered == lw.flushThreshold > 0

\* C1: index-based writer: all bytes of any one Write call reach the same
\* output file; no call's bytes are divided between a rotated file and the
\* file that replaces it (stated for distinct rotation timestamps, so that
\* no file is lost to a rename).
C1_WriteNeverSplit ==
    (IdxRunning /\ lw.timeFormatter = "nano")
        => \A c \in 1..obs.calls : Cardinality(FilesHolding(c)) <= 1

\* The exception of C3, read as widely as its words allow: the file ends with
\* a newline (it holds newline-terminated extents only), or it holds the data
\* of one Write call and nothing else.
LineTerminated(data) == data # <<>> /\ IsNewline(data[Len(data)])

OneExtent(data) == \E c \in 1..obs.calls : data = CallData(c)

\* C3: index-based writer: no output file is larger than MaxBytes, except a
\* file that holds exactly one newline-terminated extent longer than
\* MaxBytes and nothing else.
C3_FileSizeBounded ==
    IdxRunning
        => \A i \in FileIds :
              \/ Len(FileData(i)) <= lw.maxBytes
              \/ LineTerminated(FileData(i))
              \/ OneExtent(FileData(i))

\* C4: index-based writer: while the total size of the writes is less than
\* MaxBytes no rotation occurs: one file was ever created at the active
\* path, no timestamped file exists, and the file together with the pending
\* buffer (after Close: the file alone) holds the writes in call order.
C4_NoRotationBelowMax ==
    (IdxRunning /\ Len(obs.fed) < lw.maxBytes)
        => /\ obs.created = 1
           /\ disk.rotated = <<>>
           /\ disk.active.exists
           /\ disk.active.data \o lw.buf = obs.fed
           /\ phase = "closed" => disk.active.data = obs.fed

C4_Witness ==
    /\ phase = "closed"
    /\ Buffered
    /\ obs.calls >= 2
    /\ Len(obs.fed) >= 2
    /\ Len(obs.fed) < lw.maxBytes
    /\ obs.handed # <<>>

\* C7: index-based writer: the byte range a buffered Write hands to the file
\* is the pending buffer up to and including the final newline, it ends at
\* that newline, and the bytes after it stay in the buffer.
C7_FlushStopsAtNewline ==
    (IdxRunning /\ obs.op = "Write")
        => \A k \in 1..Len(obs.handed) :
              LET h == obs.handed[k]
              IN h.via = "flush"
                    => /\ h.idx >= 0
                       /\ h.data = Take(h.buf, h.idx + 1)
                       /\ IsNewline(h.data[Len(h.data)])
                       /\ \A j \in (h.idx + 2)..Len(h.buf) : ~IsNewline(h.buf[j])
                       /\ lw.buf = Drop(h.buf, h.idx + 1)

C7_Witness ==
    /\ phase = "open"
    /\ obs.op = "Write"
    /\ \E k \in 1..Len(obs.handed) :
          /\ obs.handed[k].via = "flush"
          /\ Len(obs.handed[k].data) < Len(obs.handed[k].buf)
          /\ Len(obs.handed[k].data) >= 2
    /\ lw.buf # <<>>

\* C8: index-based writer: after every successful rotation the active path
\* holds a new, empty file, writtenBytes is 0, and the bytes of the previous
\* file are at the timestamped path and nowhere else; the next write starts
\* at offset 0 of the new file.
C8_RotationLeavesEmptyActive ==
    IdxRunning
        => \A k \in 1..Len(obs.rot) :
              LET r == obs.rot[k]
                  kept == SelectSeq(r.before.rotated,
                                    LAMBDA f : f.stamp # FormatTime(lw.timeFormatter, r.before.now))
              IN r.ok => /\ r.after.active = File(<<>>)
                         /\ r.size = 0
                         /\ r.before.active.exists
                         /\ r.after.rotated =
                              Append(kept, [stamp |-> FormatTime(lw.timeFormatter, r.before.now),
                                            data |-> r.before.active.data])
                         /\ \A j \in 1..Len(obs.handed) :
                              /\ disk.active.data = obs.handed[j].data
                              /\ lw.writtenBytes = Len(obs.handed[j].data)

C8_Witness ==
    /\ IdxRunning
    /\ \E k \in 1..Len(obs.rot) :
          /\ obs.rot[k].ok
          /\ obs.rot[k].before.active.data # <<>>
          /\ obs.rot[k].before.rotated # <<>>
    /\ obs.handed # <<>>

\* C9: index-based writer: a Write whose byte slice is longer than MaxBytes
\* is not an error; once the writer is closed the whole slice is in a file
\* that contains nothing else (stated for distinct rotation timestamps).
C9_OversizeWriteAlone ==
    (IdxRunning /\ lw.timeFormatter = "nano")
        => /\ obs.err = "nil"
           /\ phase = "closed"
                => \A c \in 1..obs.calls :
                      Len(CallData(c)) > lw.maxBytes
                          => \E i \in FileIds : FileData(i) = CallData(c)

\* C10: index-based writer: Close flushes the pending bytes as one chunk
\* and rotates as needed for MaxBytes: the file it wrote to is within
\* MaxBytes, or holds nothing but the chunk Close flushed.
C10_CloseRespectsMaxBytes ==
    (phase = "closed" /\ obs.op = "Close" /\ Len(obs.handed) > 0 /\ obs.created > 0)
        => /\ Len(obs.handed) = 1
           /\ LET written == IF disk.active.exists THEN disk.active.data
                             ELSE disk.rotated[Len(disk.rotated)].data
              IN \/ Len(written) <= lw.maxBytes
                 \/ written = obs.handed[1].data

XRunning == phase \in {"open", "closed", "panicked"}
XBuffered == xw.cfg.BufferSizeMax > 0

\* s holds t as one contiguous run.
HoldsRun(s, t) == \E k \in 0..(Len(s) - Len(t)) : SubSeq(s, k + 1, k + Len(t)) = t

\* C2: extent-based writer, buffered: the data of each Write call is grouped
\* together in one output file: a file that holds a byte of the call holds
\* all of its data as one run, and no other file holds a byte of it.
C2_ExtentNeverSplit ==
    (XRunning /\ XBuffered)
        => \A c \in 1..obs.calls :
              /\ Cardinality(FilesHolding(c)) <= 1
              /\ \A i \in FilesHolding(c) : HoldsRun(FileData(i), CallData(c))

C2_Witness ==
    /\ phase = "closed"
    /\ XBuffered
    /\ Len(disk.rotated) >= 1
    /\ \E c \in 1..obs.calls :
          /\ Len(CallData(c)) >= 2
          /\ IsNewline(CallData(c)[1])
          /\ ~IsNewline(CallData(c)[Len(CallData(c))])
          /\ FilesHolding(c) # {}
          /\ \E i \in FileIds : i \notin FilesHolding(c) /\ FileData(i) # <<>>

\* C5: extent-based writer, fault-free: every Write of a non-empty chunk
\* returns (len(p), nil), Close returns nil, and the returned counts sum to
\* the total fed in.
C5_WriteReturnsLen ==
    XRunning
        => /\ (obs.op = "Write" /\ CallData(obs.calls) # <<>>)
                => (obs.n = Len(CallData(obs.calls)) /\ obs.err = "nil")
           /\ obs.op = "Close" => obs.err = "nil"
           /\ obs.sum = Len(obs.fed)

C5_Witness ==
    /\ phase = "closed"
    /\ obs.err = "nil"
    /\ XBuffered
    /\ Len(disk.rotated) >= 1
    /\ obs.sum >= 3
    /\ \E c \in 1..obs.calls :
          /\ Len(CallData(c)) > xw.cfg.BufferSizeMax
          /\ Len(CallData(c)) > xw.cfg.MaxBytes

EndsClean(data) == data # <<>> => IsNewline(data[Len(data)])

\* The files that were rotated away, and the active file once it is closed.
FinishedFiles == 1..Len(disk.rotated) \cup (IF phase = "closed" THEN FileIds ELSE {})

\* The newlines Close added among the bytes of s.
CloseNewlines(s) == Len(SelectSeq(s, LAMBDA b : Origin(b) = CloseOrigin))

RECURSIVE Flat(_)
Flat(chunks) == IF chunks = <<>> THEN <<>> ELSE Head(chunks).data \o Flat(Tail(chunks))

----------------------------------------------------------------------------
(* The writers over a failing file system.                                 *)

IdxFaulty == obs.impl = "idx" /\ phase \in {"open", "closed"}

\* The bytes of every file, the timestamped files first.
AllFiles == Flat(disk.rotated) \o disk.active.data

\* The bytes the file primitive confirmed in one call: the first nw of the
\* bytes handed to it, none when the count it reported is out of range.
Confirmed(h) == Take(h.data, IF h.nw \in 0..Len(h.data) THEN h.nw ELSE 0)

\* The bytes of call c the file primitive confirmed during the operation.
ConfirmedOf(c) ==
    BytesOf(Flat([k \in 1..Len(obs.handed) |-> [data |-> Confirmed(obs.handed[k])]]), c)

\* C11: index-based writer: when a Write returns an error, the count it
\* returns is the number of bytes of p the file primitive confirmed written:
\* those bytes are the first bytes of p, they are the bytes of p in the
\* files, and bytes of earlier calls are not counted.
C11_ErrorCountIsConfirmed ==
    (IdxFaulty /\ obs.op = "Write" /\ obs.err # "nil")
        => /\ obs.n = Len(ConfirmedOf(obs.calls))
           /\ ConfirmedOf(obs.calls) = Take(CallData(obs.calls), obs.n)
           /\ BytesOf(AllFiles, obs.calls) = ConfirmedOf(obs.calls)

C11_Witness ==
    /\ IdxFaulty
    /\ obs.op = "Write"
    /\ obs.err = "write error"
    /\ obs.n >= 1
    /\ obs.n < Len(CallData(obs.calls))
    /\ \E k \in 1..Len(obs.handed) :
          /\ obs.handed[k].nw > obs.n
          /\ BytesOf(obs.handed[k].data, obs.calls - 1) # <<>>

\* A Write whose flush handed bytes to the file and got an error back.
FlushWriteFailed ==
    /\ IdxFaulty
    /\ obs.op = "Write"
    /\ obs.err # "nil"
    /\ Len(obs.handed) = 1
    /\ obs.handed[1].via = "flush"

\* How many bytes were pending when the failed Write was called.
PendingBefore == Len(obs.handed[1].buf) - Len(CallData(obs.calls))

NoActiveFile == obs.impl = "idx" /\ phase = "open" /\ lw.filePointer = "nil"

RotationSteps == <<"close", "rename", "create">>

\* C14: both writers: the steps a Write takes to rotate are close, rename,
\* create in that order; a step is tried only when every step
\* before it succeeded, so a failed step is the last one of the Write, and
\* its error is the error the Write returns.
C14_RotationStepsInOrder ==
    obs.op = "Write"
        => /\ \A k \in 1..Len(obs.steps) :
                 /\ obs.steps[k].step = RotationSteps[((k - 1) % 3) + 1]
                 /\ k < Len(obs.steps) => obs.steps[k].err = "nil"
           /\ (obs.steps # <<>> /\ obs.steps[Len(obs.steps)].err # "nil")
                 => obs.err = obs.steps[Len(obs.steps)].err
           /\ Len(obs.rot) * 3 \in Len(obs.steps)..(Len(obs.steps) + 2)
           /\ \A k \in 1..Len(obs.rot) :
                 obs.rot[k].ok <=> (3 * k <= Len(obs.steps) /\ obs.steps[3 * k].err = "nil")

\* A Write of the extent-based writer whose rotation closed and renamed the
\* file and failed to create the next one.
C14_Witness ==
    /\ obs.impl = "ext"
    /\ obs.op = "Write"
    /\ Len(obs.steps) = 3
    /\ obs.steps[1].err = "nil"
    /\ obs.steps[2].err = "nil"
    /\ obs.steps[3].err \in {"open error", "stat error"}
    /\ obs.err = obs.steps[3].err
    /\ ~disk.active.exists \/ obs.err = "stat error"
    /\ disk.rotated # <<>>

\* A Write one of whose rotation steps failed.
RotationFailed ==
    /\ obs.op = "Write"
    /\ \E k \in 1..Len(obs.steps) : obs.steps[k].err # "nil"

\* C15: both writers: whenever the rotation of a Write fails, the byte slice
\* of the Write is written to the file all the same: the file primitive was
\* handed every byte of it.
C15_FailedRotationStillWrites ==
    (RotationFailed /\ CallData(obs.calls) # <<>>)
        => BytesOf(Flat(obs.handed), obs.calls) = CallData(obs.calls)

\* C16: extent-based writer: a Close of a writer that was closed before
\* writes no byte to any file and returns, with nil or with an error; it
\* does not crash.
C16_SecondCloseIsQuiet ==
    [][(obs.impl = "ext" /\ phase \in {"closed", "reclosed"})
          => /\ phase' = "reclosed"
             /\ disk'.active = disk.active
             /\ disk'.rotated = disk.rotated]_vars

\* C17: extent-based writer, buffered and unbuffered: a Write of an empty
\* byte slice returns (0, nil) without crashing and leaves the buffer and
\* the extent list as they were.
C17_EmptyWriteAccepted ==
    [][(obs'.calls = obs.calls + 1 /\ obs'.fed = obs.fed)
          => /\ phase' = "open"
             /\ obs'.n = 0
             /\ obs'.err = "nil"
             /\ xw'.buf = xw.buf
             /\ xw'.extents = xw.extents]_vars

\* The file primitive reported a count that is negative or larger than the
\* number of bytes it was handed.
InvalidCount(h) == h.nw < 0 \/ h.nw > Len(h.data)

\* C18: index-based writer, buffered and unbuffered: when the file primitive
\* reports a negative or too large count, Write returns an error (the
\* invalid-write-result error when the primitive gave none) and the count 0,
\* and writtenBytes is what it was (or 0, when the Write rotated first).
C18_InvalidCountRejected ==
    [][(/\ obs'.impl = "idx"
        /\ obs'.op = "Write"
        /\ \E k \in 1..Len(obs'.handed) : InvalidCount(obs'.handed[k]))
          => /\ obs'.err # "nil"
             /\ \A k \in 1..Len(obs'.handed) :
                   (InvalidCount(obs'.handed[k]) /\ obs'.handed[k].err = "nil")
                       => obs'.err = "invalid write result"
             /\ obs'.n = 0
             /\ lw'.writtenBytes \in {lw.writtenBytes, 0}]_vars

----------------------------------------------------------------------------
(* One call against many.                                                  *)

\* The bytes of s without the mark of the call that passed them.
Plain(s) == [i \in 1..Len(s) |-> s[i] % 2]

\* The configuration the writer was constructed with.
ConfigOf(w) ==
    [BufferBytes |-> w.flushThreshold, MaxBytes |-> w.maxBytes,
     TimeFormatter |-> w.timeFormatter]

\* NewLogWriter(cfg) in an empty directory, one Write of data, Close.
OneCall(cfg, data) ==
    Close(Write(NewLogWriter([w |-> ZeroLogWriter, d |-> EmptyDisk, o |-> ZeroObs],
                             cfg, NoFault),
                data, NoFault),
          NoFault)

\* The writes of the run, passed in one call to a writer of the same
\* configuration.
AllAtOnce == OneCall(ConfigOf(lw), [i \in 1..Len(obs.fed) |-> Byte(1, IsNewline(obs.fed[i]))])

\* C19: index-based writer, fault-free, any buffer threshold: when neither
\* the run of many Write calls followed by Close nor the run that passes the
\* same bytes in one Write call followed by Close rotates, both leave one
\* file, with the same bytes.
C19_SplitWritesSameFile ==
    (/\ phase = "closed"
     /\ obs.created = 1 /\ disk.rotated = <<>>
     /\ AllAtOnce.o.created = 1 /\ AllAtOnce.d.rotated = <<>>)
        => /\ disk.active.exists
           /\ AllAtOnce.d.active.exists
           /\ Plain(disk.active.data) = Plain(AllAtOnce.d.active.data)
           /\ Plain(disk.active.data) = Plain(obs.fed)

C19_Witness ==
    /\ phase = "closed"
    /\ Buffered
    /\ obs.created = 1 /\ disk.rotated = <<>>
    /\ AllAtOnce.o.created = 1 /\ AllAtOnce.d.rotated = <<>>
    /\ obs.calls >= 2
    /\ \A c \in 1..obs.calls : CallData(c) # <<>>
    /\ Len(obs.fed) >= 3
    /\ \E i \in 1..(Len(obs.fed) - 1) : IsNewline(obs.fed[i])
    /\ Len(AllAtOnce.o.handed) = 2

----------------------------------------------------------------------------
(* A Write that ends a line.                                               *)

\* The buffer of the last Write once p had joined it.
BufferWithP == IF obs.handed = <<>> THEN lw.buf ELSE obs.handed[1].buf

\* The last Write passed a slice that ends with a newline.
EndsLine == LineTerminated(CallData(obs.calls))

\* C20: index-based writer, buffered, fault-free: a Write whose p ends with a
\* newline and brings the buffer above the threshold flushes once, the whole
\* buffer up to that newline; the bytes are the end of the active file, the
\* Write returns (len(p), nil) and the buffer is empty afterwards.
C20_LineEndFlushesAll ==
    (/\ phase = "open" /\ obs.op = "Write" /\ Buffered
     /\ EndsLine
     /\ Len(BufferWithP) > lw.flushThreshold)
        => /\ Len(obs.handed) = 1
           /\ obs.handed[1].via = "flush"
           /\ obs.handed[1].data = obs.handed[1].buf
           /\ Len(disk.active.data) >= Len(obs.handed[1].data)
           /\ Drop(disk.active.data, Len(disk.active.data) - Len(obs.handed[1].data))
                 = obs.handed[1].data
           /\ lw.buf = <<>>
           /\ lw.indexOfFinalNewline = -1
           /\ obs.n = Len(CallData(obs.calls))
           /\ obs.err = "nil"

\* Two lines passed in one call to a writer with a pending byte and room in
\* the file: one flush, one file.
C20_Witness ==
    /\ phase = "open" /\ obs.op = "Write" /\ Buffered
    /\ EndsLine
    /\ Len(obs.handed) = 1
    /\ Len(obs.handed[1].data) > lw.flushThreshold
    /\ Len(obs.handed[1].data) > Len(CallData(obs.calls))
    /\ Len(CallData(obs.calls)) >= 2
    /\ IsNewline(CallData(obs.calls)[1])
    /\ obs.rot = <<>>
    /\ disk.rotated = <<>>
    /\ disk.active.data = obs.fed
    /\ lw.buf = <<>>

----------------------------------------------------------------------------
(* Construction.                                                           *)

\* The buffer size asked for is one the constructor refuses: a negative
\* one, except the -1 that turns the buffer of the extent-based writer off.
RefusedSize(impl, size) == IF impl = "idx" THEN size < 0 ELSE size < -1

\* C21: both writers: a construction that asks for an invalid (negative)
\* buffer size fails with an error; no file is opened, created or truncated:
\* the directory and the writer are as before, and no construction that
\* succeeds asked for such a size.
C21_NegativeSizeRefused ==
    [][(phase = "new" /\ obs'.op = "New")
          => IF RefusedSize(obs'.impl, obs'.asked)
             THEN /\ phase' = "failed"
                  /\ obs'.err = "cannot use negative flush threshold"
                  /\ disk' = disk
                  /\ obs'.steps = <<>>
                  /\ obs'.created = 0
                  /\ lw' = lw /\ xw' = xw
             ELSE phase' = "open"]_vars

\* A refused construction of the index-based writer next to a log file that
\* an open would have truncated.
C21_Witness ==
    /\ phase = "failed"
    /\ obs.impl = "idx"
    /\ obs.asked < 0
    /\ obs.err = "cannot use negative flush threshold"
    /\ disk.active.exists
    /\ disk.active.data # <<>>

----------------------------------------------------------------------------
(* C22 *)

\* No goroutine is inside Write.
Quiescent == \A g \in Callers : run.frame[g].pc = "idle"

\* The bytes of the accepted Writes, in the order they were called, are the
\* bytes of the files followed by the pending bytes.
NothingLostOrMisordered == AllFiles \o lw.buf = obs.fed

\* The newline index is the sentinel or marks the final newline of the buffer.
IndexMarksFinalNewline ==
    \/ lw.indexOfFinalNewline = -1
    \/ /\ lw.indexOfFinalNewline \in 0..(Len(lw.buf) - 1)
       /\ lw.indexOfFinalNewline = LastIndexByte(lw.buf)

EveryCallAccepted == \A c \in run.returned : c.n = c.len /\ c.err = "nil"

\* C22: while every caller takes the shared mutex around its Write, no state
\* is reached in which the writer panicked or, between calls, a Write was
\* turned down, bytes are lost or out of order, or the newline index does
\* not mark the final newline of the buffer. (Without the mutex such states
\* are reached: C22_Witness.)
C22_SerializedWritesAreSafe ==
    (phase \in {"open", "panicked"} /\ run.serialized)
        => /\ phase = "open"
           /\ Cardinality({g \in Callers : run.frame[g].pc # "idle"}) <= 1
           /\ Quiescent => /\ EveryCallAccepted
                           /\ NothingLostOrMisordered
                           /\ IndexMarksFinalNewline

\* Two Writes that ran without the mutex both returned (len(p), nil), and
\* a byte of theirs is in no file and not pending, and the newline index is
\* neither the sentinel nor the index of the buffer's final newline.
C22_Witness ==
    /\ phase = "open" /\ ~run.serialized /\ Quiescent
    /\ Cardinality(run.returned) = 2 /\ EveryCallAccepted
    /\ \E i \in 1..Len(obs.fed) :
         \A j \in 1..Len(AllFiles \o lw.buf) : (AllFiles \o lw.buf)[j] # obs.fed[i]
    /\ ~IndexMarksFinalNewline

----------------------------------------------------------------------------
(* C23 *)

\* C23: between the operations of the index-based writer, whatever the file
\* primitives answered, indexOfFinalNewline is -1 or the index of a newline
\* of the pending buffer with no newline after it.
C23_IndexMarksFinalNewline ==
    (obs.impl = "idx" /\ phase \in {"open", "closed"})
        => \/ lw.indexOfFinalNewline = -1
           \/ /\ 0 <= lw.indexOfFinalNewline
              /\ lw.indexOfFinalNewline < Len(lw.buf)
              /\ IsNewline(lw.buf[lw.indexOfFinalNewline + 1])
              /\ \A i \in (lw.indexOfFinalNewline + 2)..Len(lw.buf) : ~IsNewline(lw.buf[i])

\* A file write stopped short with an error and left a pending line behind
\* that the index marks.
C23_Witness ==
    /\ obs.impl = "idx" /\ phase = "open" /\ obs.op = "Write"
    /\ FlushWriteFailed
    /\ lw.indexOfFinalNewline >= 0
    /\ lw.indexOfFinalNewline + 1 < Len(lw.buf)

----------------------------------------------------------------------------
(* C24 *)

\* C24: between the operations of the index-based writer, while a file is
\* open, writtenBytes is the number of bytes that reached the active file
\* since it was created (createLogFile truncates, so that is its length):
\* pending bytes are not counted, and the count is 0 after a rotation and
\* after the open of construction.
C24_WrittenBytesCountsActiveFile ==
    (obs.impl = "idx" /\ phase = "open" /\ lw.filePointer = "open")
        => /\ lw.writtenBytes = Len(disk.active.data)
           /\ (obs.op = "New" \/ (obs.rot # <<>> /\ obs.handed = <<>>))
                  => lw.writtenBytes = 0

----------------------------------------------------------------------------
(* C25, C26 *)

\* The bytes the Write call of this step passed.
StepData == Drop(obs'.fed, Len(obs.fed))

IdxWriteStep == phase = "open" /\ obs'.op = "Write" /\ obs'.calls = obs.calls + 1

\* C25: a buffered Write of the index-based writer that leaves the buffer at
\* or below the threshold, or without a recorded newline, returns
\* (len(p), nil) and only appends p to the buffer: no byte is handed to the
\* file, the directory and writtenBytes stay as they were and no rotation
\* step runs, whatever the length of the buffer.
C25_UnflushedWriteOnlyBuffers ==
    [][(/\ IdxWriteStep
        /\ lw.flushThreshold > 0
        /\ \/ Len(lw.buf) + Len(StepData) <= lw.flushThreshold
           \/ LastIndexByte(StepData) < 0 /\ lw.indexOfFinalNewline < 0)
          => /\ obs'.n = Len(StepData) /\ obs'.err = "nil"
             /\ obs'.handed = <<>>
             /\ obs'.rot = <<>> /\ obs'.steps = <<>>
             /\ disk' = disk
             /\ lw'.writtenBytes = lw.writtenBytes
             /\ lw'.buf = lw.buf \o StepData]_vars

\* Two Writes without a newline were taken in and the buffer is longer than
\* the threshold and than MaxBytes; nothing was written.
C25_Witness ==
    /\ phase = "open" /\ obs.op = "Write" /\ obs.calls = 2
    /\ lw.flushThreshold > 0
    /\ Len(lw.buf) > lw.flushThreshold /\ Len(lw.buf) > lw.maxBytes
    /\ lw.buf = obs.fed
    /\ obs.handed = <<>> /\ disk.active.data = <<>> /\ disk.rotated = <<>>
    /\ lw.writtenBytes = 0

\* C26: an unbuffered Write of the index-based writer rotates first exactly
\* when writtenBytes + len(p) > maxBytes; when the rotation did not fail it
\* hands p, whole, to the file in one write, adds the count the file
\* reported to writtenBytes (0 after a rotation) and returns that count.
C26_UnbufferedWrite ==
    [][(IdxWriteStep /\ obs'.impl = "idx" /\ lw.flushThreshold = 0)
          => /\ (obs'.steps # <<>>) <=> (lw.writtenBytes + Len(StepData) > lw.maxBytes)
             /\ (obs'.steps # <<>>) <=> (obs'.rot # <<>>)
             /\ IF obs'.rot # <<>> /\ ~obs'.rot[1].ok
                THEN obs'.handed = <<>> /\ obs'.n = 0 /\ obs'.err # "nil"
                ELSE /\ Len(obs'.handed) = 1
                     /\ obs'.handed[1].via = "direct"
                     /\ obs'.handed[1].data = StepData
                     /\ obs'.n = obs'.handed[1].nw
                     /\ lw'.writtenBytes
                          = (IF obs'.rot # <<>> THEN 0 ELSE lw.writtenBytes) + obs'.handed[1].nw]_vars

\* An unbuffered Write rotated a file that held bytes, and the write into
\* the new file stopped short: writtenBytes is what the new file took.
C26_Witness ==
    /\ obs.impl = "idx" /\ phase = "open" /\ obs.op = "Write"
    /\ lw.flushThreshold = 0
    /\ Len(obs.rot) = 1 /\ obs.rot[1].ok /\ obs.rot[1].before.active.data # <<>>
    /\ Len(obs.handed) = 1
    /\ obs.handed[1].nw \in 1..(Len(obs.handed[1].data) - 1)
    /\ lw.writtenBytes = obs.handed[1].nw
    /\ Len(disk.active.data) = obs.handed[1].nw

----------------------------------------------------------------------------
(* C30 *)

RECURSIVE SumOf(_)
SumOf(lens) == IF lens = <<>> THEN 0 ELSE Head(lens) + SumOf(Tail(lens))

\* C30: between the operations of the extent-based writer, after a partial
\* or failed file write too, the lengths of the extents add up to the
\* length of the buffer.
C30_ExtentsCoverBuffer ==
    (obs.impl = "ext" /\ phase \in {"open", "closed", "reclosed"})
        => SumOf(xw.extents) = Len(xw.buf)

----------------------------------------------------------------------------
(* C28 *)

\* C28: the extent-based writer opens its log file for append: construction
\* keeps what the file holds, and while the file is open fileSizeNow is its
\* length, the bytes found at construction included. No write into a file
\* that holds bytes takes it past MaxBytes, and an unbuffered Write that
\* would do so rotates first.
C28_ExistingContentCounts ==
    [][/\ (obs'.op = "New" /\ phase' = "open" /\ disk.active.exists)
            => disk'.active.data = disk.active.data
       /\ phase' = "open" => xw'.fileSizeNow = Len(disk'.active.data)
       /\ phase' \in {"open", "closed"}
            => \A i \in 1..Len(obs'.handed) :
                  obs'.handed[i].idx > 0
                      => obs'.handed[i].idx + Len(obs'.handed[i].data) <= xw'.cfg.MaxBytes
       /\ (/\ phase = "open" /\ phase' = "open" /\ obs'.op = "Write"
           /\ xw.cfg.BufferSizeMax = 0
           /\ xw.fileSizeNow > 0
           /\ xw.fileSizeNow + Len(StepData) > xw.cfg.MaxBytes)
            => /\ Len(obs'.rot) = 1
               /\ obs'.rot[1].before.active.data = disk.active.data
               /\ disk'.active.data = StepData]_vars

\* The first Write met a file that held bytes before construction and no
\* room for p: the bytes found went to a timestamped file, p to a new one.
C28_Witness ==
    /\ phase = "open" /\ obs.op = "Write" /\ obs.calls = 1
    /\ obs.pre # <<>>
    /\ Len(obs.pre) < xw.cfg.MaxBytes
    /\ Len(obs.rot) = 1
    /\ Len(disk.rotated) = 1 /\ disk.rotated[1].data = obs.pre
    /\ disk.active.data = obs.fed /\ obs.fed # <<>>

----------------------------------------------------------------------------
(* C29 *)

WholeExtents(h, w) ==
    {k \in 1..(Len(w.extents) - (IF w.waitingForNewline THEN 1 ELSE 0)) :
        SumOf(Take(w.extents, k)) = Len(h.data)}

\* The last byte of each of the first k extents of w is a newline.
NewlineTerminated(w, k) ==
    \A j \in 1..k : /\ SumOf(Take(w.extents, j)) \in 1..Len(w.buf)
                    /\ IsNewline(w.buf[SumOf(Take(w.extents, j))])

\* C27: in the extent-based writer each write of a turn of the loop of
\* flushCompletedExtents hands over the front of the buffer, made of whole
\* extents that each end with a newline and never of the last extent while
\* it waits for its newline; a write of
\* flushAsMuchAsPossible leaves fileSizeNow at most MaxBytes; and a write
\* that holds an extent longer than MaxBytes is made by flushCompletedExtents
\* itself, holds that extent alone and goes to a file whose tracked size is 0.
C27_FlushWritesWholeExtents ==
    [][(phase = "flushing") =>
          \A i \in (Len(obs.handed) + 1)..Len(obs'.handed) :
              LET h == obs'.handed[i]
                  ks == WholeExtents(h, xw)
              IN /\ Len(h.data) <= Len(xw.buf)
                 /\ h.data = Take(xw.buf, Len(h.data))
                 /\ ks # {}
                 /\ \A k \in ks : NewlineTerminated(xw, k)
                 /\ h.via = "fit" =>
                        /\ h.idx + Len(h.data) <= xw.cfg.MaxBytes
                        /\ xw'.fileSizeNow <= xw.cfg.MaxBytes
                 /\ (\E k \in ks : \E j \in 1..k : xw.extents[j] > xw.cfg.MaxBytes) =>
                        /\ h.via = "extents"
                        /\ ks = {1}
                        /\ h.idx = 0]_vars

\* No two rotations of the run were given the same timestamp: every file the
\* writer created but the active one is still there under its own name.
DistinctStamps == Len(disk.rotated) = obs.created - 1

\* C31: in the index-based writer, with file primitives that never fail and
\* rotation timestamps that are pairwise distinct, every Write accepts all
\* of p, and the rotated files in the order of their rotation, then the
\* active file, then the pending buffer hold exactly the bytes of all p in
\* call order; after Close the buffer is empty, so the files alone do.
C31_NothingLostOrRepeated ==
    (IdxRunning /\ DistinctStamps) =>
        /\ obs.sum = Len(obs.fed)
        /\ AllFiles \o lw.buf = obs.fed
        /\ phase = "closed" => (lw.buf = <<>> /\ AllFiles = obs.fed)

\* Two Writes and a Close of a buffered writer left bytes in a rotated file
\* and in the active file, the last of them taken from the buffer by Close.
C31_Witness ==
    /\ phase = "closed" /\ Buffered /\ DistinctStamps
    /\ Len(disk.rotated) >= 1
    /\ disk.rotated[1].data # <<>>
    /\ disk.active.data # <<>>
    /\ obs.handed # <<>>
    /\ obs.calls = MaxWrites

\* C32: a file that a rotation left under a timestamped name is still on
\* disk with the same content after every later step, also when the time
\* formatter renders the clock readings of two rotations as the same string.
C32_RotatedFilesKept ==
    [][\A i \in 1..Len(disk.rotated) :
           \E j \in 1..Len(disk'.rotated) : disk'.rotated[j] = disk.rotated[i]]_vars

\* C33: when a buffered Write of the index-based writer returns (n, err)
\* with an error and n < len(p), the pending buffer holds no byte of p
\* afterwards, whether the write or the rotation inside the flush failed.
C33_RejectedBytesNotPending ==
    (/\ IdxFaulty /\ Buffered /\ obs.op = "Write"
     /\ obs.err # "nil" /\ obs.n < Len(CallData(obs.calls)))
        => BytesOf(lw.buf, obs.calls) = <<>>

\* C34: no rotation is performed while the active file is empty, and no
\* timestamped file of length 0 is on disk, in either writer, also when
\* the first bytes to reach an empty file are more than MaxBytes.
C34_NoEmptyRotation ==
    /\ \A i \in 1..Len(obs.rot) : obs.rot[i].before.active.data # <<>>
    /\ \A j \in 1..Len(disk.rotated) : disk.rotated[j].data # <<>>

====
